---- MODULE Spec2Model ----
(***************************************************************************)
(* Model of RangeRiteFastSample.ino: an Arduino sketch that configures an  *)
(* ADS868x/ADS869x ADC over SPI (setup), then forever captures a burst of  *)
(* raw 32-bit frames paced on the RVS pin, decodes them in place and       *)
(* prints a report (loop).                                                 *)
(*                                                                         *)
(* One action per statement of adsxConfigureBasic, capture_fast,           *)
(* decode_samples_in_place and loop; pc is the position of the single      *)
(* thread of control.  The ADC is the environment: it raises RVS when the  *)
(* conversion started by the last frame is done.                           *)
(*                                                                         *)
(* Spec runs the whole sketch, FairSpec adds fairness, SpecBus a second    *)
(* user of the SPI bus.  SpecDecode, SpecFrame, SpecXfer and SpecVolts run *)
(* decode_samples_in_place, writeRegHWord with adsxConfigureBasic, xfer32  *)
(* byte by byte, and adsxCodeToVolts on sampled inputs.                    *)
(***************************************************************************)
EXTENDS Integers, Sequences, FiniteSets, TLC

\* ------------------------------------------------------------------ bounds
\* size of the sample buffer (SAMPLE_COUNT is 256 in the sketch)
SAMPLE_COUNT == 3
\* not-ready polls of one operation that are counted (the count saturates)
MaxPolls == 2
\* transfers of another bus user that are logged during one operation
MaxForeign == 1

\* ------------------------------------------------------------- state
VARIABLES
  pc,        \* position of the sketch's thread of control
  ADSX_BITS, \* build option: 16 or 18
  N,         \* argument of capture_fast / decode_samples_in_place
  i,         \* loop index of the running for loop
  samples,   \* the sample buffer
  rvs,       \* level of the RVS pin (TRUE = HIGH = result valid)
  busOwner,  \* who is inside SPI.beginTransaction .. endTransaction
  serialLine,\* sample values of the report being written to Serial
  \* history variables (written, never read, by the program)
  trace,     \* events of the running operation, in order
  replies,   \* replies of the capture exchanges of the running burst
  writes,    \* buffer indices written by the running burst, in order
  polls,     \* not-ready polls of the running operation (saturating)
  lastOp,    \* the operation that returned last
  cfgRuns,   \* calls of adsxConfigureBasic so far
  vRange,    \* global vRange: the active range selector (uint16_t)
  mosi,      \* the four bytes of the last frame the sketch sent
  rangeReg,  \* the ADC's range-select register
  wrArgs,    \* arguments of the last call of writeRegHWord (history)
  voltsLog,  \* the calls of adsxCodeToVolts: argument, locals, result
  t0,        \* capture_fast's local t0: micros() read before the burst
  dt_us,     \* loop's local dt_us: the value capture_fast returned
  clock,     \* the microsecond clock: the last reading of micros() and the
             \* microseconds that truly passed between the last two readings
  cs,        \* level of PIN_CS: "Z" (not driven), "LOW" or "HIGH"
  xfer,      \* running call of xfer32: bytes to send b, bytes received r, returned value ret
  spiLog,    \* what the running call of xfer32 did on the pins, in order (history)
  pipe,      \* the ADC's pipeline: which exchange started the conversion whose
             \* result the next exchange returns, as <<exchange, index>>
  sources    \* for each buffer write of the running burst, the exchange that
             \* started the conversion stored (history)

vars == <<pc, ADSX_BITS, N, i, samples, rvs, busOwner, serialLine,
          trace, replies, writes, polls, lastOp, cfgRuns,
          vRange, mosi, rangeReg, wrArgs,
          voltsLog,
          t0, dt_us, clock,
          cs, xfer, spiLog,
          pipe, sources>>

Index == 0 .. (SAMPLE_COUNT - 1)

\* ------------------------------------------------------------- arithmetic
\* A uint32_t is the pair <<high half, low half>> of its 16-bit halves, so
\* that every intermediate result stays inside TLC's integers.
RECURSIVE Pow2(_)
Pow2(n) == IF n = 0 THEN 1 ELSE 2 * Pow2(n - 1)

Half == Pow2(16)

\* the uint32_t of a number below 2^31
Word(n) == <<n \div Half, n % Half>>

\* C's w >> s on uint32_t, 0 <= s < 32
ShiftRight(w, s) ==
  IF s < 16
    THEN <<w[1] \div Pow2(s), (w[1] % Pow2(s)) * Pow2(16 - s) + w[2] \div Pow2(s)>>
    ELSE <<0, w[1] \div Pow2(s - 16)>>

\* C's w << s on uint32_t, 0 <= s < 32: the bits shifted out are lost
ShiftLeft(w, s) ==
  IF s < 16
    THEN <<(w[1] % Pow2(16 - s)) * Pow2(s) + w[2] \div Pow2(16 - s),
           (w[2] % Pow2(16 - s)) * Pow2(s)>>
    ELSE <<(w[2] % Pow2(32 - s)) * Pow2(s - 16), 0>>

\* C's a & b on 16-bit halves
RECURSIVE BitAnd16(_, _)
BitAnd16(a, b) ==
  IF a = 0 \/ b = 0 THEN 0
  ELSE (a % 2) * (b % 2) + 2 * BitAnd16(a \div 2, b \div 2)

\* C's v & w on uint32_t
BitAnd(v, w) == <<BitAnd16(v[1], w[1]), BitAnd16(v[2], w[2])>>

\* v <= w on uint32_t
LessEq(v, w) == v[1] < w[1] \/ (v[1] = w[1] /\ v[2] <= w[2])

BitWidths == {16, 18}

\* mutant: the 16-bit mask in both builds
CodeMaskNarrow(b) == <<0, 65535>>

\* #define ADSX_CODE_SHIFT / ADSX_CODE_MASK, for either build
CodeShiftOf(b) == IF b = 18 THEN 14 ELSE 16
CodeMaskOf(b) == IF b = 18 THEN <<3, 65535>> ELSE <<0, 65535>>

ADSX_CODE_SHIFT == CodeShiftOf(ADSX_BITS)
ADSX_CODE_MASK == CodeMaskOf(ADSX_BITS)

\* mutant: the mask applied before the shift
DecodeWordMaskFirst(raw) ==
  ShiftRight(BitAnd(raw, ADSX_CODE_MASK), ADSX_CODE_SHIFT)

\* (raw >> ADSX_CODE_SHIFT) & ADSX_CODE_MASK
DecodeWord(raw) == BitAnd(ShiftRight(raw, ADSX_CODE_SHIFT), ADSX_CODE_MASK)

\* ------------------------------------------------------------- micros()
\* a + b on uint32_t
Add32(v, w) ==
  <<(v[1] + w[1] + ((v[2] + w[2]) \div Half)) % Half, (v[2] + w[2]) % Half>>

\* mutant: the start reading minus the end reading
Sub32Reversed(v, w) ==
  <<(w[1] + Half - v[1] - (IF w[2] < v[2] THEN 1 ELSE 0)) % Half,
    (w[2] + Half - v[2]) % Half>>

\* a - b on uint32_t
Sub32(v, w) ==
  <<(v[1] + Half - w[1] - (IF v[2] < w[2] THEN 1 ELSE 0)) % Half,
    (v[2] + Half - w[2]) % Half>>

\* readings of the 32-bit microsecond counter: early, and just before it wraps
ClockSamples == {<<0, 1000>>, <<65535, 65535>>}

\* microseconds a burst can take: none, a few, and 2^32 - 1
AdvanceSamples == {<<0, 0>>, <<0, 250>>, <<65535, 65535>>}

\* ------------------------------------------------------------- xfer32
\* no call of xfer32 is being followed byte by byte
NoXfer == [b |-> <<>>, r |-> <<>>, ret |-> <<>>]

\* mutant: the first received byte lands in bits 0..7
Pack32LittleEndian(r) == <<r[4] * 256 + r[3], r[2] * 256 + r[1]>>

\* (r0 << 24) | (r1 << 16) | (r2 << 8) | r3 as a uint32_t
Pack32(r) == <<r[1] * 256 + r[2], r[3] * 256 + r[4]>>

\* ------------------------------------------------------------- frames
ADSX_REG_RANGE_SEL == 20
ADSX_INTREF_ENABLE == 0
ADSX_RANGE_BIPOLAR_3X == 0
ADSX_RANGE_BIPOLAR_2P5X == 1
ADSX_RANGE_BIPOLAR_1P5X == 2
ADSX_RANGE_BIPOLAR_1P25X == 3
ADSX_RANGE_BIPOLAR_0P625X == 4
ADSX_RANGE_UNIPOLAR_3X == 8
ADSX_RANGE_UNIPOLAR_2P5X == 9
ADSX_RANGE_UNIPOLAR_1P5X == 10
ADSX_RANGE_UNIPOLAR_1P25X == 11

\* values of vRange the sketch is built with
RangeSelectors == {ADSX_RANGE_BIPOLAR_2P5X, ADSX_RANGE_UNIPOLAR_1P25X}

\* C's a | b on 16-bit halves
RECURSIVE BitOr16(_, _)
BitOr16(a, b) ==
  IF a = 0 THEN b
  ELSE IF b = 0 THEN a
  ELSE (IF a % 2 = 1 \/ b % 2 = 1 THEN 1 ELSE 0) + 2 * BitOr16(a \div 2, b \div 2)

\* the cast (uint8_t)x of a non-negative int
Byte(x) == x % 256

\* mutant: the payload is sent low byte first
writeRegHWordSwapped(addr, data) == <<208, addr, Byte(data), Byte(data \div 256)>>

\* the bytes writeRegHWord passes to xfer32: 0xD0, addr, data >> 8, data
writeRegHWord(addr, data) == <<208, addr, Byte(data \div 256), Byte(data)>>

\* the bytes frameNOP passes to xfer32
frameNOP == <<0, 0, 0, 0>>

\* mutant: the write always selects the range the sketch ships with
RangePayloadShipped == BitOr16(ADSX_INTREF_ENABLE, ADSX_RANGE_BIPOLAR_2P5X)

\* ADSX_INTREF_ENABLE | (vRange & 0x0F)
RangePayload == BitOr16(ADSX_INTREF_ENABLE, BitAnd16(vRange, 15))

\* ------------------------------------------------------------- float
\* An IEEE-754 single is <<sign, mantissa, exponent>>, standing for
\* (-1)^sign * mantissa * 2^exponent with the mantissa 0 or in 2^23 .. 2^24-1.
\* Every value of the conversion is far from overflow and underflow, so
\* infinities, NaNs and subnormals are left out.  Results are rounded to
\* nearest, ties to even, one operation at a time.
MantTop == Pow2(24)
MantLow == Pow2(23)

RECURSIVE BitLen(_)
BitLen(n) == IF n = 0 THEN 0 ELSE 1 + BitLen(n \div 2)

\* the float of an integer below 2^24 times 2^e (exact)
Normal(s, m, e) ==
  IF m = 0 THEN <<s, 0, 0>>
  ELSE LET k == 24 - BitLen(m) IN <<s, m * Pow2(k), e - k>>

\* q * 2^e rounded up by one unit when up holds
RoundUp(s, q, up, e) ==
  IF ~up THEN <<s, q, e>>
  ELSE IF q + 1 = MantTop THEN <<s, MantLow, e + 1>>
  ELSE <<s, q + 1, e>>

\* A natural below 2^48 is <<hi, lo>>, standing for hi * 2^24 + lo.
\* The float nearest to it times 2^e.
RoundBig(s, B, e) ==
  IF B[1] = 0 THEN Normal(s, B[2], e)
  ELSE LET h == BitLen(B[1])
           q == B[1] * Pow2(24 - h) + (B[2] \div Pow2(h))
           r == B[2] % Pow2(h)
           half == Pow2(h - 1)
       IN RoundUp(s, q, r > half \/ (r = half /\ q % 2 = 1), e + h)

\* the exact product of two naturals below 2^24, by 12-bit halves
MulBig(m, c) ==
  LET m1 == m \div 4096
      m0 == m % 4096
      c1 == c \div 4096
      c0 == c % 4096
      mid == m1 * c0 + m0 * c1
      low == m0 * c0 + (mid % 4096) * 4096
  IN <<m1 * c1 + (mid \div 4096) + (low \div MantTop), low % MantTop>>

\* m * 2^d for m below 2^24 and d in 0 .. 24
ShiftBig(m, d) == <<m \div Pow2(24 - d), (m % Pow2(24 - d)) * Pow2(d)>>

AddBig(A, B) ==
  <<A[1] + B[1] + ((A[2] + B[2]) \div MantTop), (A[2] + B[2]) % MantTop>>

\* A - B for A >= B
SubBig(A, B) ==
  IF A[2] >= B[2] THEN <<A[1] - B[1], A[2] - B[2]>>
  ELSE <<A[1] - B[1] - 1, A[2] + MantTop - B[2]>>

LessBig(A, B) == A[1] < B[1] \/ (A[1] = B[1] /\ A[2] < B[2])

\* a decimal literal n/d (n/d below 2^24, n * 2^k below 2^31) as a float
RECURSIVE RatioScale(_, _, _)
RatioScale(n, d, k) ==
  IF (n * Pow2(k)) \div d >= MantLow THEN k ELSE RatioScale(n, d, k + 1)

FloatOfRatio(n, d) ==
  LET k == RatioScale(n, d, 0)
      q == (n * Pow2(k)) \div d
      r == (n * Pow2(k)) % d
  IN RoundUp(0, q, 2 * r > d \/ (2 * r = d /\ q % 2 = 1), 0 - k)

\* (float)w of a uint32_t
FloatOfWord(w) ==
  RoundBig(0, <<w[1] \div 256, (w[1] % 256) * Half + w[2]>>, 0)

FNeg(a) == <<1 - a[1], a[2], a[3]>>

\* a * b
FMul(a, b) ==
  LET s == (a[1] + b[1]) % 2
  IN IF a[2] = 0 \/ b[2] = 0 THEN <<s, 0, 0>>
     ELSE RoundBig(s, MulBig(a[2], b[2]), a[3] + b[3])

\* x + y for non-zero x, y with the exponent of x not below that of y
AddOrdered(x, y) ==
  LET d == x[3] - y[3]
  IN IF d > 24
       THEN \* y is below half a unit of x; only next to a power of two can
            \* it pull the difference to the neighbour below
            IF x[1] # y[1] /\ x[2] = MantLow /\ d = 25 /\ y[2] > MantLow
              THEN <<x[1], MantTop - 1, x[3] - 1>>
              ELSE x
       ELSE LET A == ShiftBig(x[2], d)
                B == <<0, y[2]>>
            IN IF x[1] = y[1] THEN RoundBig(x[1], AddBig(A, B), y[3])
               ELSE IF A = B THEN <<0, 0, 0>>
               ELSE IF LessBig(A, B) THEN RoundBig(y[1], SubBig(B, A), y[3])
               ELSE RoundBig(x[1], SubBig(A, B), y[3])

\* a + b
FAdd(a, b) ==
  IF a[2] = 0 /\ b[2] = 0 THEN <<IF a[1] = 1 /\ b[1] = 1 THEN 1 ELSE 0, 0, 0>>
  ELSE IF a[2] = 0 THEN b
  ELSE IF b[2] = 0 THEN a
  ELSE IF a[3] >= b[3] THEN AddOrdered(a, b)
  ELSE AddOrdered(b, a)

\* a - b
FSub(a, b) == FAdd(a, FNeg(b))

\* a / b for b a power of two (the only divisor of the sketch is 2^ADSX_BITS)
FDivPow2(a, b) ==
  IF a[2] = 0 THEN <<(a[1] + b[1]) % 2, 0, 0>>
  ELSE <<(a[1] + b[1]) % 2, a[2], a[3] - b[3] - 23>>

\* |a| < |b|
MagLess(a, b) ==
  \/ a[2] = 0 /\ b[2] # 0
  \/ a[2] # 0 /\ b[2] # 0 /\ (a[3] < b[3] \/ (a[3] = b[3] /\ a[2] < b[2]))

\* a < b
FLess(a, b) ==
  IF a[2] = 0 /\ b[2] = 0 THEN FALSE
  ELSE IF a[1] # b[1] THEN a[1] = 1
  ELSE IF a[1] = 0 THEN MagLess(a, b)
  ELSE MagLess(b, a)

\* ------------------------------------------------------------- conversion
\* (float)4.096, written as 512/125
VOLT_REF == FloatOfRatio(512, 125)

\* mutant: the undefined selectors fall back to bipolar
adsxRangeMultiplierDefaultBipolar(code) ==
  LET c == BitAnd16(code, 15)
  IN CASE c = ADSX_RANGE_BIPOLAR_3X -> <<FloatOfRatio(3, 1), TRUE>>
       [] c = ADSX_RANGE_BIPOLAR_2P5X -> <<FloatOfRatio(5, 2), TRUE>>
       [] c = ADSX_RANGE_BIPOLAR_1P5X -> <<FloatOfRatio(3, 2), TRUE>>
       [] c = ADSX_RANGE_BIPOLAR_1P25X -> <<FloatOfRatio(5, 4), TRUE>>
       [] c = ADSX_RANGE_BIPOLAR_0P625X -> <<FloatOfRatio(5, 8), TRUE>>
       [] c = ADSX_RANGE_UNIPOLAR_3X -> <<FloatOfRatio(3, 1), FALSE>>
       [] c = ADSX_RANGE_UNIPOLAR_2P5X -> <<FloatOfRatio(5, 2), FALSE>>
       [] c = ADSX_RANGE_UNIPOLAR_1P5X -> <<FloatOfRatio(3, 2), FALSE>>
       [] c = ADSX_RANGE_UNIPOLAR_1P25X -> <<FloatOfRatio(5, 4), FALSE>>
       [] OTHER -> <<FloatOfRatio(5, 4), TRUE>>

\* adsxRangeMultiplier(code, isBipolar): <<returned multiplier, isBipolar>>
adsxRangeMultiplier(code) ==
  LET c == BitAnd16(code, 15)
  IN CASE c = ADSX_RANGE_BIPOLAR_3X -> <<FloatOfRatio(3, 1), TRUE>>
       [] c = ADSX_RANGE_BIPOLAR_2P5X -> <<FloatOfRatio(5, 2), TRUE>>
       [] c = ADSX_RANGE_BIPOLAR_1P5X -> <<FloatOfRatio(3, 2), TRUE>>
       [] c = ADSX_RANGE_BIPOLAR_1P25X -> <<FloatOfRatio(5, 4), TRUE>>
       [] c = ADSX_RANGE_BIPOLAR_0P625X -> <<FloatOfRatio(5, 8), TRUE>>
       [] c = ADSX_RANGE_UNIPOLAR_3X -> <<FloatOfRatio(3, 1), FALSE>>
       [] c = ADSX_RANGE_UNIPOLAR_2P5X -> <<FloatOfRatio(5, 2), FALSE>>
       [] c = ADSX_RANGE_UNIPOLAR_1P5X -> <<FloatOfRatio(3, 2), FALSE>>
       [] c = ADSX_RANGE_UNIPOLAR_1P25X -> <<FloatOfRatio(5, 4), FALSE>>
       [] OTHER -> <<FloatOfRatio(5, 4), FALSE>>

\* mutant: the code is masked, not saturated
ClampCodeMasks(codeN) == BitAnd(codeN, ADSX_CODE_MASK)

\* the clamp of adsxCodeToVolts
ClampCode(codeN) == IF LessEq(codeN, ADSX_CODE_MASK) THEN codeN ELSE ADSX_CODE_MASK

\* mutant: the span is taken as PFS for bipolar ranges too
adsxCodeToVoltsHalfSpan(arg) ==
  LET codeN == ClampCode(arg)
      rm == adsxRangeMultiplier(vRange)
      mult == rm[1]
      bipolar == rm[2]
      vref == VOLT_REF
      PFS == FMul(mult, vref)
      NFS == IF bipolar THEN FNeg(PFS) ELSE <<0, 0, 0>>
      FSR == PFS
      LSB == FDivPow2(FSR, FloatOfWord(ShiftLeft(Word(1), ADSX_BITS)))
  IN [arg |-> arg, codeN |-> codeN, mult |-> mult, bipolar |-> bipolar,
      PFS |-> PFS, NFS |-> NFS, LSB |-> LSB,
      ret |-> FAdd(NFS, FMul(FloatOfWord(codeN), LSB))]

\* adsxCodeToVolts(arg): the argument, the locals and the returned value
adsxCodeToVolts(arg) ==
  LET codeN == ClampCode(arg)
      rm == adsxRangeMultiplier(vRange)
      mult == rm[1]
      bipolar == rm[2]
      vref == VOLT_REF
      PFS == FMul(mult, vref)
      NFS == IF bipolar THEN FNeg(PFS) ELSE <<0, 0, 0>>
      FSR == FSub(PFS, NFS)
      LSB == FDivPow2(FSR, FloatOfWord(ShiftLeft(Word(1), ADSX_BITS)))
  IN [arg |-> arg, codeN |-> codeN, mult |-> mult, bipolar |-> bipolar,
      PFS |-> PFS, NFS |-> NFS, LSB |-> LSB,
      ret |-> FAdd(NFS, FMul(FloatOfWord(codeN), LSB))]

\* ------------------------------------------------------------- environment
\* 32-bit words the ADC answers a frame with: 0x00014007 (bits set in and
\* below the code field) and 0xFFFFFFFF
RawReplies == {<<1, 16391>>, <<65535, 65535>>}

\* what a frame leaves in the ADC's range-select register: a WRITE HWORD
\* frame (0xD0) addressed to it stores the 16-bit payload
DeviceWrite(frame) ==
  IF frame[1] = 208 /\ frame[2] = ADSX_REG_RANGE_SEL
    THEN frame[3] * 256 + frame[4]
    ELSE rangeReg

\* the frame goes out on the wire and the ADC acts on it
Wire(frame) == mosi' = frame /\ rangeReg' = DeviceWrite(frame)

\* the ADC finishes the conversion in flight and raises RVS
DeviceReady ==
  /\ ~rvs
  /\ rvs' = TRUE
  /\ UNCHANGED <<pc, ADSX_BITS, N, i, samples, busOwner, serialLine,
                 trace, replies, writes, polls, lastOp, cfgRuns>>
  /\ UNCHANGED <<vRange, mosi, rangeReg, wrArgs>>
  /\ UNCHANGED voltsLog
  /\ UNCHANGED <<t0, dt_us, clock>>
  /\ UNCHANGED <<cs, xfer, spiLog>>
  /\ UNCHANGED <<pipe, sources>>

\* ------------------------------------------------------------- positions
CfgPcs == {"cfg_begin1", "cfg_write", "cfg_nop1", "cfg_end1", "cfg_wait",
           "cfg_begin2", "cfg_nop2", "cfg_end2"}
CapPcs == {"cap_begin1", "cap_nop0", "cap_end1", "cap_wait0", "cap_t0",
           "cap_begin2", "cap_wait", "cap_xfer", "cap_end2", "cap_ret"}
DecPcs == {"dec_step", "dec_ret"}
\* the three spin loops on rvsReady()
WaitPcs == {"cfg_wait", "cap_wait0", "cap_wait"}

\* ------------------------------------------------------------- helpers
Log(e) == trace' = Append(trace, e)

\* SPI.beginTransaction(adsSPI)
BeginTransaction == busOwner = "none" /\ busOwner' = "main"
\* SPI.endTransaction()
EndTransaction == busOwner' = "none"

\* xfer32: one chip-select framed exchange; the rising edge of CS starts
\* the next conversion, so RVS drops
Xfer32(kind) == Log(kind) /\ rvs' = FALSE

\* mutant: the spin loop gives up after MaxPolls not-ready polls
SpinOnRvsTimeout(here, next) ==
  /\ pc = here
  /\ IF rvs
       THEN /\ pc' = next
            /\ Log("rdy")
            /\ UNCHANGED polls
       ELSE /\ pc' = IF polls < MaxPolls THEN here ELSE next
            /\ polls' = IF polls < MaxPolls THEN polls + 1 ELSE polls
            /\ UNCHANGED trace

\* one evaluation of the condition of while (!rvsReady()) {}
\* at position here: leaves the loop to position next when RVS reads HIGH
\* mutant: the spin loop waits for RVS to read LOW
SpinOnRvsInverted(here, next) ==
  /\ pc = here
  /\ IF ~rvs
       THEN /\ pc' = next
            /\ Log("rdy")
            /\ UNCHANGED polls
       ELSE /\ pc' = here
            /\ polls' = IF polls < MaxPolls THEN polls + 1 ELSE polls
            /\ UNCHANGED trace

SpinOnRvs(here, next) ==
  /\ pc = here
  /\ IF rvs
       THEN /\ pc' = next
            /\ Log("rdy")
            /\ UNCHANGED polls
       ELSE /\ pc' = here
            /\ polls' = IF polls < MaxPolls THEN polls + 1 ELSE polls
            /\ UNCHANGED trace

\* ------------------------------------------------------------- setup()
Init ==
  /\ pc = "setup"
  /\ ADSX_BITS \in BitWidths
  /\ N = SAMPLE_COUNT
  /\ i = 0
  /\ samples = [j \in Index |-> Word(0)]
  /\ rvs \in BOOLEAN
  /\ busOwner = "none"
  /\ serialLine = <<>>
  /\ trace = <<>>
  /\ replies = <<>>
  /\ writes = <<>>
  /\ polls = 0
  /\ lastOp = "none"
  /\ cfgRuns = 0
  /\ vRange \in RangeSelectors
  /\ mosi = <<>>
  /\ rangeReg = 0
  /\ wrArgs = <<>>
  /\ voltsLog = <<>>
  /\ t0 = Word(0)
  /\ dt_us = Word(0)
  /\ clock = [read |-> Word(0), adv |-> Word(0)]
  /\ cs = "Z"
  /\ xfer = NoXfer
  /\ spiLog = <<>>
  /\ pipe = <<"reset", 0>>
  /\ sources = <<>>

\* pin setup, SPI.begin() and the call of adsxConfigureBasic
SetupBegin ==
  /\ pc = "setup"
  /\ pc' = "cfg_begin1"
  /\ cfgRuns' = cfgRuns + 1
  /\ trace' = <<>>
  /\ polls' = 0
  /\ UNCHANGED <<ADSX_BITS, N, i, samples, rvs, busOwner, serialLine,
                 replies, writes, lastOp>>
  /\ UNCHANGED <<vRange, mosi, rangeReg, wrArgs>>
  /\ UNCHANGED voltsLog
  /\ UNCHANGED <<t0, dt_us, clock>>
  /\ cs' = "HIGH"
  /\ UNCHANGED <<xfer, spiLog>>
  /\ UNCHANGED <<pipe, sources>>

\* the sketch as it ships: ADSX_BITS 18, vRange = ADSX_RANGE_BIPOLAR_2P5X
InitShipped ==
  /\ Init
  /\ ADSX_BITS = 18
  /\ vRange = ADSX_RANGE_BIPOLAR_2P5X

\* ------------------------------------------------------------- adsxConfigureBasic()
CfgBegin1 ==
  /\ pc = "cfg_begin1"
  /\ BeginTransaction
  /\ Log("begin")
  /\ pc' = "cfg_write"
  /\ UNCHANGED <<ADSX_BITS, N, i, samples, rvs, serialLine,
                 replies, writes, polls, lastOp, cfgRuns>>
  /\ UNCHANGED <<vRange, mosi, rangeReg, wrArgs>>
  /\ UNCHANGED voltsLog
  /\ UNCHANGED <<t0, dt_us, clock>>
  /\ UNCHANGED <<cs, xfer, spiLog>>
  /\ UNCHANGED <<pipe, sources>>

\* writeRegHWord(ADSX_REG_RANGE_SEL, ...)
CfgWriteReg ==
  /\ pc = "cfg_write"
  /\ Xfer32("wr")
  /\ pc' = "cfg_nop1"
  /\ UNCHANGED <<ADSX_BITS, N, i, samples, busOwner, serialLine,
                 replies, writes, polls, lastOp, cfgRuns>>
  /\ wrArgs' = <<ADSX_REG_RANGE_SEL, RangePayload>>
  /\ Wire(writeRegHWord(ADSX_REG_RANGE_SEL, RangePayload))
  /\ UNCHANGED vRange
  /\ UNCHANGED voltsLog
  /\ UNCHANGED <<t0, dt_us, clock>>
  /\ UNCHANGED <<cs, xfer, spiLog>>
  /\ pipe' = <<"wr", 0>>
  /\ UNCHANGED sources

CfgNop1 ==
  /\ pc = "cfg_nop1"
  /\ Xfer32("nop")
  /\ pc' = "cfg_end1"
  /\ UNCHANGED <<ADSX_BITS, N, i, samples, busOwner, serialLine,
                 replies, writes, polls, lastOp, cfgRuns>>
  /\ Wire(frameNOP)
  /\ UNCHANGED <<vRange, wrArgs>>
  /\ UNCHANGED voltsLog
  /\ UNCHANGED <<t0, dt_us, clock>>
  /\ UNCHANGED <<cs, xfer, spiLog>>
  /\ pipe' = <<"nop1", 0>>
  /\ UNCHANGED sources

CfgEnd1 ==
  /\ pc = "cfg_end1"
  /\ EndTransaction
  /\ Log("end")
  /\ pc' = "cfg_wait"
  /\ UNCHANGED <<ADSX_BITS, N, i, samples, rvs, serialLine,
                 replies, writes, polls, lastOp, cfgRuns>>
  /\ UNCHANGED <<vRange, mosi, rangeReg, wrArgs>>
  /\ UNCHANGED voltsLog
  /\ UNCHANGED <<t0, dt_us, clock>>
  /\ UNCHANGED <<cs, xfer, spiLog>>
  /\ UNCHANGED <<pipe, sources>>

\* mutant: a no-op frame is sent on every not-ready poll
CfgWaitResend ==
  /\ pc = "cfg_wait"
  /\ IF rvs
       THEN /\ pc' = "cfg_begin2"
            /\ Log("rdy")
            /\ UNCHANGED <<polls, rvs>>
       ELSE /\ pc' = "cfg_wait"
            /\ polls' = IF polls < MaxPolls THEN polls + 1 ELSE polls
            /\ IF polls < MaxPolls THEN Xfer32("nop") ELSE UNCHANGED <<trace, rvs>>
  /\ UNCHANGED <<ADSX_BITS, N, i, samples, busOwner, serialLine,
                 replies, writes, lastOp, cfgRuns>>
  /\ UNCHANGED <<vRange, mosi, rangeReg, wrArgs>>
  /\ UNCHANGED voltsLog
  /\ UNCHANGED <<t0, dt_us, clock>>
  /\ UNCHANGED <<cs, xfer, spiLog>>
  /\ UNCHANGED <<pipe, sources>>

\* mutant: configure does not wait for RVS before its second no-op
CfgWaitSkipped ==
  /\ pc = "cfg_wait"
  /\ pc' = "cfg_begin2"
  /\ UNCHANGED <<trace, polls>>
  /\ UNCHANGED <<ADSX_BITS, N, i, samples, rvs, busOwner, serialLine,
                 replies, writes, lastOp, cfgRuns>>
  /\ UNCHANGED <<vRange, mosi, rangeReg, wrArgs>>
  /\ UNCHANGED voltsLog
  /\ UNCHANGED <<t0, dt_us, clock>>
  /\ UNCHANGED <<cs, xfer, spiLog>>
  /\ UNCHANGED <<pipe, sources>>

CfgWait ==
  /\ SpinOnRvs("cfg_wait", "cfg_begin2")
  /\ UNCHANGED <<ADSX_BITS, N, i, samples, rvs, busOwner, serialLine,
                 replies, writes, lastOp, cfgRuns>>
  /\ UNCHANGED <<vRange, mosi, rangeReg, wrArgs>>
  /\ UNCHANGED voltsLog
  /\ UNCHANGED <<t0, dt_us, clock>>
  /\ UNCHANGED <<cs, xfer, spiLog>>
  /\ UNCHANGED <<pipe, sources>>

CfgBegin2 ==
  /\ pc = "cfg_begin2"
  /\ BeginTransaction
  /\ Log("begin")
  /\ pc' = "cfg_nop2"
  /\ UNCHANGED <<ADSX_BITS, N, i, samples, rvs, serialLine,
                 replies, writes, polls, lastOp, cfgRuns>>
  /\ UNCHANGED <<vRange, mosi, rangeReg, wrArgs>>
  /\ UNCHANGED voltsLog
  /\ UNCHANGED <<t0, dt_us, clock>>
  /\ UNCHANGED <<cs, xfer, spiLog>>
  /\ UNCHANGED <<pipe, sources>>

CfgNop2 ==
  /\ pc = "cfg_nop2"
  /\ Xfer32("nop")
  /\ pc' = "cfg_end2"
  /\ UNCHANGED <<ADSX_BITS, N, i, samples, busOwner, serialLine,
                 replies, writes, polls, lastOp, cfgRuns>>
  /\ Wire(frameNOP)
  /\ UNCHANGED <<vRange, wrArgs>>
  /\ UNCHANGED voltsLog
  /\ UNCHANGED <<t0, dt_us, clock>>
  /\ UNCHANGED <<cs, xfer, spiLog>>
  /\ pipe' = <<"nop2", 0>>
  /\ UNCHANGED sources

\* SPI.endTransaction() and the return to setup()
CfgEnd2 ==
  /\ pc = "cfg_end2"
  /\ EndTransaction
  /\ Log("end")
  /\ pc' = "setup_banner"
  /\ lastOp' = "configure"
  /\ UNCHANGED <<ADSX_BITS, N, i, samples, rvs, serialLine,
                 replies, writes, polls, cfgRuns>>
  /\ UNCHANGED <<vRange, mosi, rangeReg, wrArgs>>
  /\ UNCHANGED voltsLog
  /\ UNCHANGED <<t0, dt_us, clock>>
  /\ UNCHANGED <<cs, xfer, spiLog>>
  /\ UNCHANGED <<pipe, sources>>

\* the banner setup() prints, and its return
SetupBanner ==
  /\ pc = "setup_banner"
  /\ pc' = "loop"
  /\ UNCHANGED <<ADSX_BITS, N, i, samples, rvs, busOwner, serialLine,
                 trace, replies, writes, polls, lastOp, cfgRuns>>
  /\ UNCHANGED <<vRange, mosi, rangeReg, wrArgs>>
  /\ UNCHANGED voltsLog
  /\ UNCHANGED <<t0, dt_us, clock>>
  /\ UNCHANGED <<cs, xfer, spiLog>>
  /\ UNCHANGED <<pipe, sources>>

\* ------------------------------------------------------------- capture_fast(N)
\* loop() calls capture_fast.  The sketch passes SAMPLE_COUNT; the model draws
\* the argument from 0 .. SAMPLE_COUNT, every count the buffer can hold, and
\* passes the same count to decode_samples_in_place and to the report.
LoopCall ==
  /\ pc = "loop"
  /\ \E n \in 0 .. SAMPLE_COUNT : N' = n
  /\ i' = 0
  /\ trace' = <<>>
  /\ replies' = <<>>
  /\ writes' = <<>>
  /\ polls' = 0
  /\ pc' = "cap_begin1"
  /\ UNCHANGED <<ADSX_BITS, samples, rvs, busOwner, serialLine,
                 lastOp, cfgRuns>>
  /\ UNCHANGED <<vRange, mosi, rangeReg, wrArgs>>
  /\ UNCHANGED voltsLog
  /\ UNCHANGED <<t0, dt_us, clock>>
  /\ UNCHANGED <<cs, xfer, spiLog>>
  /\ pipe' = <<"earlier", 0>>
  /\ sources' = <<>>

CapBegin1 ==
  /\ pc = "cap_begin1"
  /\ BeginTransaction
  /\ Log("begin")
  /\ pc' = "cap_nop0"
  /\ UNCHANGED <<ADSX_BITS, N, i, samples, rvs, serialLine,
                 replies, writes, polls, lastOp, cfgRuns>>
  /\ UNCHANGED <<vRange, mosi, rangeReg, wrArgs>>
  /\ UNCHANGED voltsLog
  /\ UNCHANGED <<t0, dt_us, clock>>
  /\ UNCHANGED <<cs, xfer, spiLog>>
  /\ UNCHANGED <<pipe, sources>>

\* mutant: capture_fast starts without its initial frame
CapNop0Skipped ==
  /\ pc = "cap_nop0"
  /\ pc' = "cap_end1"
  /\ UNCHANGED <<ADSX_BITS, N, i, samples, rvs, busOwner, serialLine, trace,
                 replies, writes, polls, lastOp, cfgRuns>>
  /\ UNCHANGED <<vRange, mosi, rangeReg, wrArgs>>
  /\ UNCHANGED voltsLog
  /\ UNCHANGED <<t0, dt_us, clock>>
  /\ UNCHANGED <<cs, xfer, spiLog>>
  /\ UNCHANGED <<pipe, sources>>

\* (void)frameNOP(): start first conversion
CapNop0 ==
  /\ pc = "cap_nop0"
  /\ Xfer32("nop")
  /\ pc' = "cap_end1"
  /\ UNCHANGED <<ADSX_BITS, N, i, samples, busOwner, serialLine,
                 replies, writes, polls, lastOp, cfgRuns>>
  /\ Wire(frameNOP)
  /\ UNCHANGED <<vRange, wrArgs>>
  /\ UNCHANGED voltsLog
  /\ UNCHANGED <<t0, dt_us, clock>>
  /\ UNCHANGED <<cs, xfer, spiLog>>
  /\ pipe' = <<"nop0", 0>>
  /\ UNCHANGED sources

CapEnd1 ==
  /\ pc = "cap_end1"
  /\ EndTransaction
  /\ Log("end")
  /\ pc' = "cap_wait0"
  /\ UNCHANGED <<ADSX_BITS, N, i, samples, rvs, serialLine,
                 replies, writes, polls, lastOp, cfgRuns>>
  /\ UNCHANGED <<vRange, mosi, rangeReg, wrArgs>>
  /\ UNCHANGED voltsLog
  /\ UNCHANGED <<t0, dt_us, clock>>
  /\ UNCHANGED <<cs, xfer, spiLog>>
  /\ UNCHANGED <<pipe, sources>>

\* mutant: the first ready-wait is left out
CapWait0Skipped ==
  /\ pc = "cap_wait0"
  /\ pc' = "cap_t0"
  /\ UNCHANGED <<ADSX_BITS, N, i, samples, rvs, busOwner, serialLine,
                 trace, replies, writes, polls, lastOp, cfgRuns>>
  /\ UNCHANGED <<vRange, mosi, rangeReg, wrArgs>>
  /\ UNCHANGED voltsLog
  /\ UNCHANGED <<t0, dt_us, clock>>
  /\ UNCHANGED <<cs, xfer, spiLog>>
  /\ UNCHANGED <<pipe, sources>>

CapWait0 ==
  /\ SpinOnRvs("cap_wait0", "cap_t0")
  /\ UNCHANGED <<ADSX_BITS, N, i, samples, rvs, busOwner, serialLine,
                 replies, writes, lastOp, cfgRuns>>
  /\ UNCHANGED <<vRange, mosi, rangeReg, wrArgs>>
  /\ UNCHANGED voltsLog
  /\ UNCHANGED <<t0, dt_us, clock>>
  /\ UNCHANGED <<cs, xfer, spiLog>>
  /\ UNCHANGED <<pipe, sources>>

\* uint32_t t0 = micros()
CapT0 ==
  /\ pc = "cap_t0"
  /\ Log("t0")
  /\ pc' = "cap_begin2"
  /\ UNCHANGED <<ADSX_BITS, N, i, samples, rvs, busOwner, serialLine,
                 replies, writes, polls, lastOp, cfgRuns>>
  /\ UNCHANGED <<vRange, mosi, rangeReg, wrArgs>>
  /\ UNCHANGED voltsLog
  /\ \E r \in ClockSamples :
       /\ clock' = [read |-> r, adv |-> Word(0)]
       /\ t0' = r
  /\ UNCHANGED dt_us
  /\ UNCHANGED <<cs, xfer, spiLog>>
  /\ UNCHANGED <<pipe, sources>>

\* SPI.beginTransaction and the for loop's i = 0; i < N
CapBegin2 ==
  /\ pc = "cap_begin2"
  /\ BeginTransaction
  /\ Log("begin")
  /\ i' = 0
  /\ pc' = IF 0 < N THEN "cap_wait" ELSE "cap_end2"
  /\ UNCHANGED <<ADSX_BITS, N, samples, rvs, serialLine,
                 replies, writes, polls, lastOp, cfgRuns>>
  /\ UNCHANGED <<vRange, mosi, rangeReg, wrArgs>>
  /\ UNCHANGED voltsLog
  /\ UNCHANGED <<t0, dt_us, clock>>
  /\ UNCHANGED <<cs, xfer, spiLog>>
  /\ UNCHANGED <<pipe, sources>>

\* mutant: the ready-wait inside the loop is left out
CapWaitSkipped ==
  /\ pc = "cap_wait"
  /\ pc' = "cap_xfer"
  /\ UNCHANGED <<ADSX_BITS, N, i, samples, rvs, busOwner, serialLine,
                 trace, replies, writes, polls, lastOp, cfgRuns>>
  /\ UNCHANGED <<vRange, mosi, rangeReg, wrArgs>>
  /\ UNCHANGED voltsLog
  /\ UNCHANGED <<t0, dt_us, clock>>
  /\ UNCHANGED <<cs, xfer, spiLog>>
  /\ UNCHANGED <<pipe, sources>>

CapWait ==
  /\ SpinOnRvs("cap_wait", "cap_xfer")
  /\ UNCHANGED <<ADSX_BITS, N, i, samples, rvs, busOwner, serialLine,
                 replies, writes, lastOp, cfgRuns>>
  /\ UNCHANGED <<vRange, mosi, rangeReg, wrArgs>>
  /\ UNCHANGED voltsLog
  /\ UNCHANGED <<t0, dt_us, clock>>
  /\ UNCHANGED <<cs, xfer, spiLog>>
  /\ UNCHANGED <<pipe, sources>>

\* mutant: the loop runs while i <= N
CapXferOneMore ==
  /\ pc = "cap_xfer"
  /\ \E r \in RawReplies :
        /\ samples' = [j \in Index |-> IF j = i THEN r ELSE samples[j]]
        /\ replies' = Append(replies, r)
  /\ writes' = Append(writes, i)
  /\ Xfer32("cap")
  /\ i' = i + 1
  /\ pc' = IF i + 1 <= N /\ i + 1 < SAMPLE_COUNT THEN "cap_wait" ELSE "cap_end2"
  /\ UNCHANGED <<ADSX_BITS, N, busOwner, serialLine, polls, lastOp, cfgRuns>>
  /\ Wire(frameNOP)
  /\ UNCHANGED <<vRange, wrArgs>>
  /\ UNCHANGED voltsLog
  /\ UNCHANGED <<t0, dt_us, clock>>
  /\ UNCHANGED <<cs, xfer, spiLog>>
  /\ sources' = Append(sources, pipe)
  /\ pipe' = <<"cap", i>>

\* mutant: the transaction is closed after every frame
CapXferReleases ==
  /\ pc = "cap_xfer"
  /\ \E r \in RawReplies :
        /\ samples' = [samples EXCEPT ![i] = r]
        /\ replies' = Append(replies, r)
  /\ writes' = Append(writes, i)
  /\ trace' = trace \o <<"cap", "end">>
  /\ rvs' = FALSE
  /\ busOwner' = "none"
  /\ i' = i + 1
  /\ pc' = IF i + 1 < N THEN "cap_wait" ELSE "cap_end2"
  /\ UNCHANGED <<ADSX_BITS, N, serialLine, polls, lastOp, cfgRuns>>
  /\ Wire(frameNOP)
  /\ UNCHANGED <<vRange, wrArgs>>
  /\ UNCHANGED voltsLog
  /\ UNCHANGED <<t0, dt_us, clock>>
  /\ UNCHANGED <<cs, xfer, spiLog>>
  /\ sources' = Append(sources, pipe)
  /\ pipe' = <<"cap", i>>

\* samples[i] = frameNOP(); ++i; i < N
CapXfer ==
  /\ pc = "cap_xfer"
  /\ \E r \in RawReplies :
        /\ samples' = [samples EXCEPT ![i] = r]
        /\ replies' = Append(replies, r)
  /\ writes' = Append(writes, i)
  /\ Xfer32("cap")
  /\ i' = i + 1
  /\ pc' = IF i + 1 < N THEN "cap_wait" ELSE "cap_end2"
  /\ UNCHANGED <<ADSX_BITS, N, busOwner, serialLine, polls, lastOp, cfgRuns>>
  /\ Wire(frameNOP)
  /\ UNCHANGED <<vRange, wrArgs>>
  /\ UNCHANGED voltsLog
  /\ UNCHANGED <<t0, dt_us, clock>>
  /\ UNCHANGED <<cs, xfer, spiLog>>
  /\ sources' = Append(sources, pipe)
  /\ pipe' = <<"cap", i>>

CapEnd2 ==
  /\ pc = "cap_end2"
  /\ EndTransaction
  /\ Log("end")
  /\ pc' = "cap_ret"
  /\ UNCHANGED <<ADSX_BITS, N, i, samples, rvs, serialLine,
                 replies, writes, polls, lastOp, cfgRuns>>
  /\ UNCHANGED <<vRange, mosi, rangeReg, wrArgs>>
  /\ UNCHANGED voltsLog
  /\ UNCHANGED <<t0, dt_us, clock>>
  /\ UNCHANGED <<cs, xfer, spiLog>>
  /\ UNCHANGED <<pipe, sources>>

\* return micros() - t0
CapReturn ==
  /\ pc = "cap_ret"
  /\ Log("t1")
  /\ i' = 0
  /\ lastOp' = "capture"
  /\ pc' = "loop_dec"
  /\ UNCHANGED <<ADSX_BITS, N, samples, rvs, busOwner, serialLine,
                 replies, writes, polls, cfgRuns>>
  /\ UNCHANGED <<vRange, mosi, rangeReg, wrArgs>>
  /\ UNCHANGED voltsLog
  /\ \E a \in AdvanceSamples :
       LET now == Add32(clock.read, a)
       IN /\ clock' = [read |-> now, adv |-> a]
          /\ dt_us' = Sub32(now, t0)
  /\ t0' = Word(0)
  /\ UNCHANGED <<cs, xfer, spiLog>>
  /\ UNCHANGED <<pipe, sources>>

\* ------------------------------------------------------------- decode_samples_in_place(N)
\* mutant: the decode loop is never entered
DecCallSkips ==
  /\ pc = "loop_dec"
  /\ i' = 0
  /\ pc' = "dec_ret"
  /\ UNCHANGED <<ADSX_BITS, N, samples, rvs, busOwner, serialLine,
                 trace, replies, writes, polls, lastOp, cfgRuns>>
  /\ UNCHANGED <<vRange, mosi, rangeReg, wrArgs>>
  /\ UNCHANGED voltsLog
  /\ UNCHANGED <<t0, dt_us, clock>>
  /\ UNCHANGED <<cs, xfer, spiLog>>
  /\ UNCHANGED <<pipe, sources>>

\* the call in loop() and the for loop's i = 0; i < N
DecCall ==
  /\ pc = "loop_dec"
  /\ i' = 0
  /\ pc' = IF 0 < N THEN "dec_step" ELSE "dec_ret"
  /\ UNCHANGED <<ADSX_BITS, N, samples, rvs, busOwner, serialLine,
                 trace, replies, writes, polls, lastOp, cfgRuns>>
  /\ UNCHANGED <<vRange, mosi, rangeReg, wrArgs>>
  /\ UNCHANGED voltsLog
  /\ UNCHANGED <<t0, dt_us, clock>>
  /\ UNCHANGED <<cs, xfer, spiLog>>
  /\ UNCHANGED <<pipe, sources>>

\* samples[i] = (samples[i] >> ADSX_CODE_SHIFT) & ADSX_CODE_MASK; ++i; i < N
DecStep ==
  /\ pc = "dec_step"
  /\ samples' = [samples EXCEPT ![i] = DecodeWord(samples[i])]
  /\ i' = i + 1
  /\ pc' = IF i + 1 < N THEN "dec_step" ELSE "dec_ret"
  /\ UNCHANGED <<ADSX_BITS, N, rvs, busOwner, serialLine,
                 trace, replies, writes, polls, lastOp, cfgRuns>>
  /\ UNCHANGED <<vRange, mosi, rangeReg, wrArgs>>
  /\ UNCHANGED voltsLog
  /\ UNCHANGED <<t0, dt_us, clock>>
  /\ UNCHANGED <<cs, xfer, spiLog>>
  /\ UNCHANGED <<pipe, sources>>

DecReturn ==
  /\ pc = "dec_ret"
  /\ i' = 0
  /\ lastOp' = "decode"
  /\ pc' = "report"
  /\ UNCHANGED <<ADSX_BITS, N, samples, rvs, busOwner, serialLine,
                 trace, replies, writes, polls, cfgRuns>>
  /\ UNCHANGED <<vRange, mosi, rangeReg, wrArgs>>
  /\ UNCHANGED voltsLog
  /\ UNCHANGED <<t0, dt_us, clock>>
  /\ UNCHANGED <<cs, xfer, spiLog>>
  /\ UNCHANGED <<pipe, sources>>

\* ------------------------------------------------------------- the report of loop()
Min(a, b) == IF a < b THEN a ELSE b
Max(a, b) == IF a > b THEN a ELSE b

\* samples[0 .. min(4, N) - 1] then samples[max(0, N - 4) .. N - 1]
ReportLine ==
  [k \in 1 .. Min(4, N) |-> samples[k - 1]]
    \o [k \in 1 .. (N - Max(0, N - 4)) |-> samples[Max(0, N - 4) + k - 1]]

Report ==
  /\ pc = "report"
  /\ serialLine' = ReportLine
  /\ lastOp' = "report"
  /\ pc' = "delay"
  /\ UNCHANGED <<ADSX_BITS, N, i, samples, rvs, busOwner,
                 trace, replies, writes, polls, cfgRuns>>
  /\ UNCHANGED <<vRange, mosi, rangeReg, wrArgs>>
  /\ UNCHANGED voltsLog
  /\ UNCHANGED <<t0, dt_us, clock>>
  /\ UNCHANGED <<cs, xfer, spiLog>>
  /\ UNCHANGED <<pipe, sources>>

\* mutant: the device is configured again before every burst
DelayReconfigures ==
  /\ pc = "delay"
  /\ serialLine' = <<>>
  /\ pc' = "setup"
  /\ lastOp' = "none"
  /\ UNCHANGED <<ADSX_BITS, N, i, samples, rvs, busOwner,
                 trace, replies, writes, polls, cfgRuns>>
  /\ UNCHANGED <<vRange, mosi, rangeReg, wrArgs>>
  /\ UNCHANGED voltsLog
  /\ dt_us' = Word(0)
  /\ clock' = [read |-> Word(0), adv |-> Word(0)]
  /\ UNCHANGED t0
  /\ UNCHANGED <<cs, xfer, spiLog>>
  /\ UNCHANGED <<pipe, sources>>

\* delay(2000) and the return of loop(); the line has left the sketch
Delay ==
  /\ pc = "delay"
  /\ serialLine' = <<>>
  /\ pc' = "loop"
  /\ UNCHANGED <<ADSX_BITS, N, i, samples, rvs, busOwner,
                 trace, replies, writes, polls, lastOp, cfgRuns>>
  /\ UNCHANGED <<vRange, mosi, rangeReg, wrArgs>>
  /\ UNCHANGED voltsLog
  /\ dt_us' = Word(0)
  /\ clock' = [read |-> Word(0), adv |-> Word(0)]
  /\ UNCHANGED t0
  /\ UNCHANGED <<cs, xfer, spiLog>>
  /\ UNCHANGED <<pipe, sources>>

\* ------------------------------------------------------------- the sketch
Configure ==
  \/ SetupBegin \/ CfgBegin1 \/ CfgWriteReg \/ CfgNop1 \/ CfgEnd1
  \/ CfgWait \/ CfgBegin2 \/ CfgNop2 \/ CfgEnd2 \/ SetupBanner

Capture ==
  \/ LoopCall \/ CapBegin1 \/ CapNop0 \/ CapEnd1 \/ CapWait0 \/ CapT0
  \/ CapBegin2 \/ CapWait \/ CapXfer \/ CapEnd2 \/ CapReturn

Decode == DecCall \/ DecStep \/ DecReturn

Sketch == Configure \/ Capture \/ Decode \/ Report \/ Delay

Next == Sketch \/ DeviceReady

Spec == Init /\ [][Next]_vars

\* ------------------------------------------------------------- a second bus user
\* Another user of the same SPI bus (a driver of another chip, an interrupt
\* handler registered with the SPI library) that, like the sketch, transfers
\* only between its own beginTransaction and endTransaction.
ForeignCount == Len(SelectSeq(trace, LAMBDA e : e = "foreign"))

OtherBegin ==
  /\ busOwner = "none"
  /\ ForeignCount < MaxForeign
  /\ busOwner' = "other"
  /\ UNCHANGED <<pc, ADSX_BITS, N, i, samples, rvs, serialLine,
                 trace, replies, writes, polls, lastOp, cfgRuns>>
  /\ UNCHANGED <<vRange, mosi, rangeReg, wrArgs>>
  /\ UNCHANGED voltsLog
  /\ UNCHANGED <<t0, dt_us, clock>>
  /\ UNCHANGED <<cs, xfer, spiLog>>
  /\ UNCHANGED <<pipe, sources>>

\* its transfer; the event is logged while configure or capture_fast runs
OtherTransfer ==
  /\ busOwner = "other"
  /\ busOwner' = "otherDone"
  /\ IF pc \in CfgPcs \cup CapPcs THEN Log("foreign") ELSE UNCHANGED trace
  /\ UNCHANGED <<pc, ADSX_BITS, N, i, samples, rvs, serialLine,
                 replies, writes, polls, lastOp, cfgRuns>>
  /\ UNCHANGED <<vRange, mosi, rangeReg, wrArgs>>
  /\ UNCHANGED voltsLog
  /\ UNCHANGED <<t0, dt_us, clock>>
  /\ UNCHANGED <<cs, xfer, spiLog>>
  /\ UNCHANGED <<pipe, sources>>

OtherEnd ==
  /\ busOwner = "otherDone"
  /\ busOwner' = "none"
  /\ UNCHANGED <<pc, ADSX_BITS, N, i, samples, rvs, serialLine,
                 trace, replies, writes, polls, lastOp, cfgRuns>>
  /\ UNCHANGED <<vRange, mosi, rangeReg, wrArgs>>
  /\ UNCHANGED voltsLog
  /\ UNCHANGED <<t0, dt_us, clock>>
  /\ UNCHANGED <<cs, xfer, spiLog>>
  /\ UNCHANGED <<pipe, sources>>

OtherUser == OtherBegin \/ OtherTransfer \/ OtherEnd

NextBus == Sketch \/ DeviceReady \/ OtherUser

SpecBus == InitShipped /\ [][NextBus]_vars

\* ------------------------------------------------------------- decode alone
\* decode_samples_in_place(N) called on an arbitrary buffer
\* codes of up to 18 bits: every single bit, every run of low bits, and two
\* mixed patterns (0xAAAA, 0x20005)
CodeSamples ==
  {0, 43690, 131077} \cup {Pow2(k) : k \in 0 .. 17} \cup {Pow2(k) - 1 : k \in 1 .. 18}

\* words with bits set outside the code field
JunkInputs == {<<0, 16383>>, <<1, 16391>>, <<65535, 65535>>}

\* the code samples placed at either code field, and the junk words
DecodeInputs ==
  {ShiftLeft(Word(c), s) : c \in CodeSamples, s \in {14, 16}} \cup JunkInputs

\* the buffers decoded: any input at position 0, junk words behind it
DecodeBuffers ==
  {[j \in Index |-> IF j = 0 THEN w ELSE r[j]] :
     w \in DecodeInputs, r \in [Index -> JunkInputs]}

InitDecode ==
  /\ pc = "loop_dec"
  /\ ADSX_BITS \in BitWidths
  /\ N \in 0 .. SAMPLE_COUNT
  /\ i = 0
  /\ samples \in DecodeBuffers
  /\ rvs = FALSE
  /\ busOwner = "none"
  /\ serialLine = <<>>
  /\ trace = <<>>
  /\ replies = [k \in 1 .. N |-> samples[k - 1]]
  /\ writes = [k \in 1 .. N |-> k - 1]
  /\ polls = 0
  /\ lastOp = "capture"
  /\ cfgRuns = 1
  /\ vRange = ADSX_RANGE_BIPOLAR_2P5X
  /\ mosi = <<>>
  /\ rangeReg = 0
  /\ wrArgs = <<>>
  /\ voltsLog = <<>>
  /\ t0 = Word(0)
  /\ dt_us = Word(0)
  /\ clock = [read |-> Word(0), adv |-> Word(0)]
  /\ cs = "HIGH"
  /\ xfer = NoXfer
  /\ spiLog = <<>>
  /\ pipe = <<"reset", 0>>
  /\ sources = <<>>

SpecDecode == InitDecode /\ [][Decode]_vars

\* ------------------------------------------------------------- frames alone
\* 16-bit selector values: every low nibble under three settings of the
\* upper twelve bits
SelectorSamples == {n + 16 * h : n \in 0 .. 15, h \in {0, 1, 4095}}

\* arguments writeRegHWord is called with on its own
AddrSamples == {0, ADSX_REG_RANGE_SEL, 255}
DataSamples == {0, 1, 255, 256, 4660, 43981, 65535}

\* setup() with any selector, or a call of writeRegHWord with any arguments
InitFrame ==
  /\ \/ /\ pc = "setup"
        /\ vRange \in SelectorSamples
        /\ wrArgs = <<>>
     \/ /\ pc = "wr_call"
        /\ vRange = ADSX_RANGE_BIPOLAR_2P5X
        /\ wrArgs \in AddrSamples \X DataSamples
  /\ ADSX_BITS \in BitWidths
  /\ N = SAMPLE_COUNT
  /\ i = 0
  /\ samples = [j \in Index |-> Word(0)]
  /\ rvs \in BOOLEAN
  /\ busOwner = "none"
  /\ serialLine = <<>>
  /\ trace = <<>>
  /\ replies = <<>>
  /\ writes = <<>>
  /\ polls = 0
  /\ lastOp = "none"
  /\ cfgRuns = 0
  /\ mosi = <<>>
  /\ rangeReg = 0
  /\ voltsLog = <<>>
  /\ t0 = Word(0)
  /\ dt_us = Word(0)
  /\ clock = [read |-> Word(0), adv |-> Word(0)]
  /\ cs = "HIGH"
  /\ xfer = NoXfer
  /\ spiLog = <<>>
  /\ pipe = <<"reset", 0>>
  /\ sources = <<>>

\* writeRegHWord(addr, data): (void)xfer32(0xD0, addr, data >> 8, data)
WriteRegCall ==
  /\ pc = "wr_call"
  /\ Xfer32("wr")
  /\ Wire(writeRegHWord(wrArgs[1], wrArgs[2]))
  /\ pc' = "wr_done"
  /\ UNCHANGED <<ADSX_BITS, N, i, samples, busOwner, serialLine,
                 replies, writes, polls, lastOp, cfgRuns>>
  /\ UNCHANGED <<vRange, wrArgs>>
  /\ UNCHANGED voltsLog
  /\ UNCHANGED <<t0, dt_us, clock>>
  /\ UNCHANGED <<cs, xfer, spiLog>>
  /\ pipe' = <<"wr", 0>>
  /\ UNCHANGED sources

NextFrame == Configure \/ DeviceReady \/ WriteRegCall

SpecFrame == InitFrame /\ [][NextFrame]_vars

\* ------------------------------------------------------------- conversion alone
\* codes adsxCodeToVolts is called with: the ends and the middle of both code
\* ranges with their neighbours, codes in between, and codes above the mask
VoltCodes ==
  {Word(n) : n \in {0, 1, 2, 3, 1000, 21845, 32767, 32768, 32769, 43690,
                    65534, 65535, 65536, 65537, 66535, 131071, 131072,
                    131073, 174763, 262142, 262143, 262144, 263143}}
    \cup {<<4, 0>>, <<32768, 0>>, <<65535, 65535>>}

\* a call of adsxCodeToVolts with any selector in vRange
InitVolts ==
  /\ pc = "volts"
  /\ vRange \in SelectorSamples
  /\ ADSX_BITS \in BitWidths
  /\ N = SAMPLE_COUNT
  /\ i = 0
  /\ samples = [j \in Index |-> Word(0)]
  /\ rvs = FALSE
  /\ busOwner = "none"
  /\ serialLine = <<>>
  /\ trace = <<>>
  /\ replies = <<>>
  /\ writes = <<>>
  /\ polls = 0
  /\ lastOp = "none"
  /\ cfgRuns = 0
  /\ mosi = <<>>
  /\ rangeReg = 0
  /\ wrArgs = <<>>
  /\ voltsLog = <<>>
  /\ t0 = Word(0)
  /\ dt_us = Word(0)
  /\ clock = [read |-> Word(0), adv |-> Word(0)]
  /\ cs = "HIGH"
  /\ xfer = NoXfer
  /\ spiLog = <<>>
  /\ pipe = <<"reset", 0>>
  /\ sources = <<>>

\* float v = adsxCodeToVolts(c), called twice
VoltsCall ==
  /\ pc = "volts"
  /\ Len(voltsLog) < 2
  /\ \E c \in VoltCodes : voltsLog' = Append(voltsLog, adsxCodeToVolts(c))
  /\ UNCHANGED <<pc, ADSX_BITS, N, i, samples, rvs, busOwner, serialLine,
                 trace, replies, writes, polls, lastOp, cfgRuns,
                 vRange, mosi, rangeReg, wrArgs>>
  /\ UNCHANGED <<t0, dt_us, clock>>
  /\ UNCHANGED <<cs, xfer, spiLog>>
  /\ UNCHANGED <<pipe, sources>>

SpecVolts == InitVolts /\ [][VoltsCall]_vars

\* ------------------------------------------------------------- xfer32 alone
\* frames xfer32 is called with: no-op, range write, and four distinct bytes
FrameSamples == {frameNOP, writeRegHWord(ADSX_REG_RANGE_SEL, 1), <<1, 2, 3, 255>>}

\* bytes the ADC shifts out
ByteSamples == {0, 1, 255}

\* calls of xfer32 after setup() has set up PIN_CS
InitXfer ==
  /\ pc = "xfer_call"
  /\ cs = "HIGH"
  /\ xfer \in {[b |-> f, r |-> <<>>, ret |-> <<>>] : f \in FrameSamples}
  /\ spiLog = <<>>
  /\ vRange = ADSX_RANGE_BIPOLAR_2P5X
  /\ ADSX_BITS \in BitWidths
  /\ N = SAMPLE_COUNT
  /\ i = 0
  /\ samples = [j \in Index |-> Word(0)]
  /\ rvs = FALSE
  /\ busOwner = "main"
  /\ serialLine = <<>>
  /\ trace = <<>>
  /\ replies = <<>>
  /\ writes = <<>>
  /\ polls = 0
  /\ lastOp = "none"
  /\ cfgRuns = 0
  /\ mosi = <<>>
  /\ rangeReg = 0
  /\ wrArgs = <<>>
  /\ voltsLog = <<>>
  /\ t0 = Word(0)
  /\ dt_us = Word(0)
  /\ clock = [read |-> Word(0), adv |-> Word(0)]
  /\ pipe = <<"reset", 0>>
  /\ sources = <<>>

XferRest ==
  UNCHANGED <<ADSX_BITS, N, i, samples, rvs, busOwner, serialLine, trace,
              replies, writes, polls, lastOp, cfgRuns, vRange, mosi,
              rangeReg, wrArgs, voltsLog, t0, dt_us, clock,
              pipe, sources>>

\* digitalWrite(PIN_CS, LOW)
XferCsLow ==
  /\ pc = "xfer_call"
  /\ cs' = "LOW"
  /\ spiLog' = Append(spiLog, <<"cs", "LOW">>)
  /\ pc' = "xfer_byte"
  /\ UNCHANGED xfer
  /\ XferRest

\* uint8_t rk = SPI.transfer(bk), for k = 0, 1, 2, 3
XferByte ==
  /\ pc = "xfer_byte"
  /\ \E got \in ByteSamples :
       /\ xfer' = [xfer EXCEPT !.r = Append(@, got)]
       /\ spiLog' = Append(spiLog, <<"byte", xfer.b[Len(xfer.r) + 1], got, cs>>)
  /\ pc' = IF Len(xfer.r) = 3 THEN "xfer_cs_high" ELSE "xfer_byte"
  /\ UNCHANGED cs
  /\ XferRest

\* digitalWrite(PIN_CS, HIGH)
XferCsHigh ==
  /\ pc = "xfer_cs_high"
  /\ cs' = "HIGH"
  /\ spiLog' = Append(spiLog, <<"cs", "HIGH">>)
  /\ pc' = "xfer_ret"
  /\ UNCHANGED xfer
  /\ XferRest

\* return (r0 << 24) | (r1 << 16) | (r2 << 8) | r3
XferReturn ==
  /\ pc = "xfer_ret"
  /\ xfer' = [xfer EXCEPT !.ret = Pack32(xfer.r)]
  /\ pc' = "xfer_done"
  /\ UNCHANGED <<cs, spiLog>>
  /\ XferRest

\* the next call of xfer32
XferCall ==
  /\ pc = "xfer_done"
  /\ \E f \in FrameSamples : xfer' = [b |-> f, r |-> <<>>, ret |-> <<>>]
  /\ spiLog' = <<>>
  /\ pc' = "xfer_call"
  /\ UNCHANGED cs
  /\ XferRest

NextXfer == XferCsLow \/ XferByte \/ XferCsHigh \/ XferReturn \/ XferCall

SpecXfer == InitXfer /\ [][NextXfer]_vars

\* ------------------------------------------------------------- fair runs
\* the processor keeps executing the sketch, and the ADC ends every
\* conversion it started
FairSpec ==
  InitShipped /\ [][Next]_vars /\ WF_vars(Sketch) /\ WF_vars(DeviceReady)

\* ------------------------------------------------------------- properties
IsExchange(e) == e \in {"wr", "nop", "cap"}

\* the SPI exchanges of the running operation, in issue order
Exchanges == SelectSeq(trace, IsExchange)

\* the positions of event e in the trace
At(e) == {k \in DOMAIN trace : trace[k] = e}

\* n capture exchanges in a row
Caps(n) == [k \in 1 .. n |-> "cap"]

\* bit k (0 = least significant) of a uint32_t
Bit(w, k) == IF k < 16 THEN (w[2] \div Pow2(k)) % 2 ELSE (w[1] \div Pow2(k - 16)) % 2

\* a step of capture_fast changes no position >= N, and records each
\* position it changes
CaptureWritesBelowN ==
  pc \in CapPcs =>
    \A j \in Index :
       /\ j >= N => samples'[j] = samples[j]
       /\ samples'[j] # samples[j] => writes' = Append(writes, j)

\* C1: when capture_fast(N) returns it has issued one initial and N capture
\* no-op exchanges, has written exactly the positions 0 .. N-1, once each in
\* increasing order, position i holds the unmodified reply of the i-th capture
\* exchange, and no position >= N is changed by any step of the capture.
C1_CaptureStoresInOrder ==
  /\ [](pc = "loop_dec" =>
          (/\ Exchanges = <<"nop">> \o Caps(N)
           /\ writes = [k \in 1 .. N |-> k - 1]
           /\ Len(replies) = N
           /\ \A k \in 1 .. N : samples[k - 1] = replies[k]))
  /\ [][CaptureWritesBelowN]_vars

\* a burst of SAMPLE_COUNT - 1 frames has returned: two different replies are
\* stored, and the last position still holds a value of an earlier burst
C1_Witness ==
  /\ pc = "loop_dec"
  /\ N = SAMPLE_COUNT - 1
  /\ N >= 2
  /\ samples[0] # samples[1]
  /\ samples[N] # Word(0)

\* C2: adsxConfigureBasic issues exactly three exchanges: the register
\* write, a no-op, and after RVS was read HIGH a second no-op, however many
\* polls the wait took; nothing else is exchanged before the first capture.
C2_ConfigureThreeExchanges ==
  /\ pc \in CfgPcs =>
       \E n \in 0 .. 3 : Exchanges = SubSeq(<<"wr", "nop", "nop">>, 1, n)
  /\ (lastOp = "configure" /\ pc \in {"setup_banner", "loop"}) =>
       SelectSeq(trace, LAMBDA e : IsExchange(e) \/ e = "rdy")
         = <<"wr", "nop", "rdy", "nop">>

\* configure has returned after a wait of at least MaxPolls not-ready polls,
\* and capture_fast has not been called yet
C2_Witness ==
  /\ pc = "loop"
  /\ lastOp = "configure"
  /\ polls = MaxPolls

\* C3: every capture exchange is preceded by a poll that read RVS HIGH
\* after the previous exchange: between that poll and the capture exchange
\* there is no other exchange.
C3_CapturePacedOnReady ==
  \A c \in At("cap") :
     \E r \in At("rdy") :
        /\ r < c
        /\ \A m \in (r + 1) .. (c - 1) : ~IsExchange(trace[m])

\* two capture exchanges have been issued in one burst
C3_Witness ==
  /\ pc = "cap_wait"
  /\ Len(replies) = 2
  /\ polls > 0

\* C4: t0 is read after the initial exchange and after a poll that followed
\* it read RVS HIGH, and before every capture exchange; t1 is read after the
\* N-th capture exchange; so the N capture exchanges with their ready-waits,
\* and not the initial exchange, lie between the two clock reads.
C4_TimestampWindow ==
  /\ Cardinality(At("t0")) <= 1
  /\ Cardinality(At("t1")) <= 1
  /\ \A t \in At("t0") :
        /\ \E a \in At("nop") : \E r \in At("rdy") : a < r /\ r < t
        /\ \A a \in At("nop") : a < t
  /\ \A c \in At("cap") : \E t \in At("t0") : t < c
  /\ \A u \in At("t1") :
        \E t \in At("t0") :
           /\ t < u
           /\ SelectSeq(SubSeq(trace, t + 1, u - 1),
                        LAMBDA e : IsExchange(e) \/ e = "rdy")
                = [k \in 1 .. 2 * N |-> IF k % 2 = 1 THEN "rdy" ELSE "cap"]
           /\ \A c \in At("cap") : c < u
  /\ pc = "loop_dec" => At("t1") # {}

\* a full burst has returned with both clock reads taken
C4_Witness ==
  /\ pc = "loop_dec"
  /\ N = SAMPLE_COUNT
  /\ At("t0") # {}
  /\ At("t1") # {}

\* the order in which operations return
PhaseSuccession ==
  {<<"none", "configure">>, <<"configure", "capture">>, <<"capture", "decode">>,
   <<"decode", "report">>, <<"report", "capture">>}

\* what a step may do in which phase
PhaseStep ==
  /\ lastOp' # lastOp => <<lastOp, lastOp'>> \in PhaseSuccession
  /\ Len(Exchanges') > Len(Exchanges) => pc \in CfgPcs \cup CapPcs
  /\ samples' # samples => pc \in CapPcs \cup DecPcs
  /\ serialLine' # serialLine =>
       \/ pc = "report" /\ lastOp = "decode"
       \/ pc = "delay" /\ serialLine' = <<>>

\* C5: configure runs once and returns before the first capture starts;
\* then capture, decode and report follow each other, each returning before
\* the next starts; frames are exchanged only inside configure and capture,
\* the buffer is written only inside capture and decode and printed only
\* by the report.
C5_PhaseOrder ==
  /\ [](/\ cfgRuns <= 1
        /\ pc \in CfgPcs => lastOp = "none" /\ cfgRuns = 1
        /\ pc \in CapPcs => lastOp \in {"configure", "report"} /\ cfgRuns = 1
        /\ pc \in DecPcs \cup {"loop_dec"} => lastOp = "capture"
        /\ pc = "report" => lastOp = "decode"
        /\ pc = "delay" => lastOp = "report")
  /\ [][PhaseStep]_vars

\* a second burst is being captured after a report
C5_Witness ==
  /\ pc = "cap_xfer"
  /\ lastOp = "report"
  /\ cfgRuns = 1

\* a step taken inside a ready-wait
WaitStep ==
  /\ (pc \in WaitPcs /\ ~rvs) =>
        /\ pc' = pc
        /\ trace' = trace
        /\ samples' = samples
        /\ serialLine' = serialLine
        /\ lastOp' = lastOp
        /\ busOwner' = busOwner
  /\ (pc \in WaitPcs /\ pc' # pc) => (rvs /\ trace' = Append(trace, "rdy"))

\* C6: a spin loop has no timeout: while RVS reads LOW in a ready-wait the
\* sketch does not leave the wait, exchanges nothing, writes nothing to the
\* buffer, prints nothing and completes no operation; the wait is left only by
\* a poll that reads RVS HIGH.
C6_NoTimeout == [][WaitStep]_vars

\* the loop of capture_fast has polled RVS LOW MaxPolls times and still waits
C6_Witness ==
  /\ pc = "cap_wait"
  /\ ~rvs
  /\ polls = MaxPolls

\* C7: the bus is acquired once before the capture loop and released once
\* after it: inside the loop the sketch holds the bus, and no transfer of
\* another bus user, acquisition or release lies between two capture
\* exchanges of a burst.
C7_BurstHoldsBus ==
  /\ pc \in {"cap_wait", "cap_xfer"} => busOwner = "main"
  /\ \A a, b \in At("cap") :
        \A m \in a .. b : trace[m] \notin {"foreign", "begin", "end"}
  /\ pc = "loop_dec" =>
       SelectSeq(trace, LAMBDA e : e \in {"begin", "end", "cap"})
         = <<"begin", "end", "begin">> \o Caps(N) \o <<"end">>

\* a burst of at least two frames has returned, and the other user
\* transferred during the call
C7_Witness ==
  /\ pc = "loop_dec"
  /\ N >= 2
  /\ At("foreign") # {}

\* C8: at every report each of the N entries is the reply captured for its
\* position in the latest burst decoded exactly once, so it lies in
\* [0, mask]; the line printed is made of these entries.
C8_DecodedOnceAtReport ==
  /\ pc \in {"report", "delay"} =>
       /\ Len(replies) = N
       /\ \A k \in 1 .. N :
             /\ samples[k - 1] = DecodeWord(replies[k])
             /\ LessEq(samples[k - 1], ADSX_CODE_MASK)
  /\ pc = "delay" => serialLine = ReportLine

\* a report of one frame 0xFFFFFFFF (decoding it twice gives another value)
\* on a buffer whose next entry is left from an earlier burst
C8_Witness ==
  /\ pc = "delay"
  /\ N = 1
  /\ replies = << <<65535, 65535>> >>
  /\ samples[1] # Word(0)
  /\ serialLine # <<>>

\* two words agree on the bits of the code field, bits [32 - width, 32)
SameField(v, w) ==
  \A b \in (32 - ADSX_BITS) .. 31 : Bit(v, b) = Bit(w, b)

\* a step changes no entry at index >= N
DecodeKeepsRest == \A j \in Index : j >= N => samples'[j] = samples[j]

\* C9: decode_samples_in_place(N) replaces each of the first N entries by its
\* code field moved to bit 0 with every higher bit clear, a value in
\* [0, mask]; it changes no entry at index >= N; two frames that agree on the
\* code field decode to the same code.
C9_DecodeInPlace ==
  /\ [](pc \in {"dec_ret", "report"} =>
          \A k \in 1 .. N :
             /\ \A b \in 0 .. 31 :
                   Bit(samples[k - 1], b) =
                     IF b < ADSX_BITS THEN Bit(replies[k], b + 32 - ADSX_BITS) ELSE 0
             /\ LessEq(samples[k - 1], CodeMaskOf(ADSX_BITS))
             /\ \A m \in 1 .. N :
                   SameField(replies[k], replies[m]) => samples[k - 1] = samples[m - 1])
  /\ [](/\ CodeShiftOf(18) = 14 /\ CodeMaskOf(18) = Word(262143)
        /\ CodeShiftOf(16) = 16 /\ CodeMaskOf(16) = Word(65535))
  /\ [][DecodeKeepsRest]_vars

\* the decode of two different frames with the same code field is done, and an
\* entry beyond N holds a word with bits outside [0, mask]
C9_Witness ==
  /\ pc = "dec_ret"
  /\ N = 2
  /\ N < SAMPLE_COUNT
  /\ replies[1] # replies[2]
  /\ samples[0] = samples[1]
  /\ samples[N] = <<65535, 65535>>

\* C10: decoding the frame (code << shift) mod 2^32 gives back code, for
\* every code of the build's width.
C10_RoundTrip ==
  pc \in {"dec_ret", "report"} =>
    \A k \in 1 .. N : \A c \in CodeSamples :
       (c < Pow2(ADSX_BITS) /\ replies[k] = ShiftLeft(Word(c), 32 - ADSX_BITS))
         => samples[k - 1] = Word(c)

\* the 18-bit build has decoded the frame 0x3FFFF << 14
C10_Witness ==
  /\ pc = "dec_ret"
  /\ ADSX_BITS = 18
  /\ N >= 1
  /\ replies[1] = ShiftLeft(Word(262143), 14)
  /\ samples[0] = Word(262143)

\* the write exchange changes nothing the sketch keeps of a reply
WriteDiscardsReply ==
  pc \in {"cfg_write", "wr_call"} =>
    /\ samples' = samples
    /\ replies' = replies
    /\ serialLine' = serialLine

\* C11: the write exchange of configure sends 0xD0, 0x14, 0x00 and the low
\* four bits of the selector, for every 16-bit selector; writeRegHWord(addr,
\* value) sends 0xD0, addr and the value high byte first, and keeps nothing
\* of the reply.
C11_WriteFrameBytes ==
  /\ [](pc = "cfg_nop1" => mosi = <<208, 20, 0, vRange % 16>>)
  /\ [](pc \in {"cfg_nop1", "wr_done"} =>
          (/\ Len(mosi) = 4
           /\ \A k \in 1 .. 4 : mosi[k] \in 0 .. 255
           /\ mosi[1] = 208
           /\ mosi[2] = wrArgs[1]
           /\ mosi[3] * 256 + mosi[4] = wrArgs[2]))
  /\ [][WriteDiscardsReply]_vars

\* configure has sent the write frame for the selector 0xFFFB
C11_Witness ==
  /\ pc = "cfg_nop1"
  /\ vRange = 65531
  /\ mosi = <<208, 20, 0, 11>>

\* the documented table: selector value 0 .. 15 to <<multiplier, bipolar>>,
\* the multipliers written out as singles (3.0 is 12582912 * 2^-22)
DocumentedPair(n) ==
  CASE n = 0 -> <<<<0, 12582912, -22>>, TRUE>>
    [] n = 1 -> <<<<0, 10485760, -22>>, TRUE>>
    [] n = 2 -> <<<<0, 12582912, -23>>, TRUE>>
    [] n = 3 -> <<<<0, 10485760, -23>>, TRUE>>
    [] n = 4 -> <<<<0, 10485760, -24>>, TRUE>>
    [] n = 8 -> <<<<0, 12582912, -22>>, FALSE>>
    [] n = 9 -> <<<<0, 10485760, -22>>, FALSE>>
    [] n = 10 -> <<<<0, 12582912, -23>>, FALSE>>
    [] n = 11 -> <<<<0, 10485760, -23>>, FALSE>>
    [] n \in {5, 6, 7, 12, 13, 14, 15} -> <<<<0, 10485760, -23>>, FALSE>>

\* C12: for every selector the lookup returns the documented multiplier and
\* polarity of its low four bits: 0..4 are 3.0, 2.5, 1.5, 1.25, 0.625
\* bipolar, 8..0xB are 3.0, 2.5, 1.5, 1.25 unipolar, every other value is
\* 1.25 unipolar; the upper bits of the selector play no part.
C12_MultiplierTable ==
  \A k \in 1 .. Len(voltsLog) :
    <<voltsLog[k].mult, voltsLog[k].bipolar>> = DocumentedPair(vRange % 16)

\* the lookup has run for the undefined selector 0xFFFC and fell back
C12_Witness ==
  /\ voltsLog # <<>>
  /\ vRange = 65532
  /\ voltsLog[1].mult = <<0, 10485760, -23>>
  /\ ~voltsLog[1].bipolar

\* C13: a code above the mask converts to the same voltage as the mask
\* itself, in every range, and a code up to the mask is converted as it is.
C13_Saturates ==
  \A j, k \in 1 .. Len(voltsLog) :
    /\ (~LessEq(voltsLog[j].arg, ADSX_CODE_MASK) /\ voltsLog[k].arg = ADSX_CODE_MASK)
         => voltsLog[j].ret = voltsLog[k].ret
    /\ LessEq(voltsLog[k].arg, ADSX_CODE_MASK) => voltsLog[k].codeN = voltsLog[k].arg

\* 0xFFFFFFFF and the mask have been converted to the same voltage
C13_Witness ==
  /\ Len(voltsLog) = 2
  /\ ADSX_BITS = 18
  /\ vRange = ADSX_RANGE_BIPOLAR_2P5X
  /\ voltsLog[1].arg = <<65535, 65535>>
  /\ voltsLog[2].arg = <<3, 65535>>
  /\ voltsLog[1].ret = voltsLog[2].ret

\* the nine defined range selectors
DefinedRanges == {0, 1, 2, 3, 4, 8, 9, 10, 11}

\* full scales and step of the active range as the contract states them:
\* PFS = multiplier * reference (4.096 as a single is 8589935 * 2^-21),
\* NFS = -PFS if bipolar else 0, LSB = (PFS - NFS) / 2^bitWidth
RangePFS == FMul(DocumentedPair(vRange % 16)[1], <<0, 8589935, -21>>)
RangeNFS == IF DocumentedPair(vRange % 16)[2] THEN FNeg(RangePFS) ELSE <<0, 0, 0>>
RangeLSB == FDivPow2(FSub(RangePFS, RangeNFS), Normal(0, 1, ADSX_BITS))

\* a < b on uint32_t
Less(v, w) == LessEq(v, w) /\ v # w

\* C14: in each of the nine ranges, code 0 converts to NFS, the mask
\* converts to NFS + mask * LSB, which is below PFS, a larger code up to the
\* mask converts to a larger voltage, and in a bipolar range the mid-scale
\* code 2^(bitWidth-1) converts to 0.
C14_ScaleEnds ==
  (vRange % 16) \in DefinedRanges =>
    \A j, k \in 1 .. Len(voltsLog) :
      /\ voltsLog[k].arg = Word(0) => voltsLog[k].ret = RangeNFS
      /\ voltsLog[k].arg = ADSX_CODE_MASK =>
           /\ voltsLog[k].ret = FAdd(RangeNFS, FMul(Normal(0, Pow2(ADSX_BITS) - 1, 0), RangeLSB))
           /\ FLess(voltsLog[k].ret, RangePFS)
      /\ (Less(voltsLog[j].arg, voltsLog[k].arg) /\ LessEq(voltsLog[k].arg, ADSX_CODE_MASK))
           => FLess(voltsLog[j].ret, voltsLog[k].ret)
      /\ (DocumentedPair(vRange % 16)[2] /\ voltsLog[k].arg = Word(Pow2(ADSX_BITS - 1)))
           => voltsLog[k].ret[2] = 0

\* bipolar 2.5x, 18 bits: mid-scale converted to 0, then the mask to a
\* voltage between 0 and PFS
C14_Witness ==
  /\ Len(voltsLog) = 2
  /\ ADSX_BITS = 18
  /\ vRange = ADSX_RANGE_BIPOLAR_2P5X
  /\ voltsLog[1].arg = <<2, 0>>
  /\ voltsLog[1].ret[2] = 0
  /\ voltsLog[2].arg = <<3, 65535>>
  /\ FLess(voltsLog[1].ret, voltsLog[2].ret)
  /\ FLess(voltsLog[2].ret, RangePFS)

\* capture_fast takes the start reading into t0
StartReading == pc = "cap_t0" => t0' = clock'.read

\* capture_fast returns the end reading minus the start reading, which is
\* the time that passed
ElapsedReading ==
  pc = "cap_ret" =>
    /\ dt_us' = Sub32(clock'.read, t0)
    /\ dt_us' = clock'.adv
    /\ dt_us'[1] \in 0 .. (Half - 1)
    /\ dt_us'[2] \in 0 .. (Half - 1)

\* C15: the elapsed time capture_fast returns is the end reading minus the
\* start reading modulo 2^32, is not negative, and is the number of
\* microseconds the clock advanced between the two reads when that is below
\* 2^32, also when the counter wrapped in between.
C15_ElapsedMicros == [][StartReading /\ ElapsedReading]_vars

\* a burst began at 0xFFFFFFFF and took 250 us: the counter wrapped to 249
C15_Witness ==
  /\ pc = "loop_dec"
  /\ lastOp = "capture"
  /\ clock = [read |-> <<0, 249>>, adv |-> <<0, 250>>]
  /\ dt_us = <<0, 250>>

\* the sketch is between two exchanges
XferIdle == pc \notin {"xfer_byte", "xfer_cs_high"}

\* C16: an exchange drives chip-select low, transfers exactly the four
\* bytes b0, b1, b2, b3 in that order and drives chip-select high;
\* chip-select is high between exchanges, every byte goes out while it is
\* low, and the returned value holds the received bytes big-endian.
C16_ChipSelectFraming ==
  /\ XferIdle => cs = "HIGH"
  /\ \A k \in 1 .. Len(spiLog) : spiLog[k][1] = "byte" => spiLog[k][4] = "LOW"
  /\ pc \in {"xfer_ret", "xfer_done"} =>
       /\ Len(spiLog) = 6
       /\ spiLog[1] = <<"cs", "LOW">>
       /\ \A k \in 1 .. 4 :
            /\ spiLog[k + 1][1] = "byte"
            /\ spiLog[k + 1][2] = xfer.b[k]
            /\ spiLog[k + 1][3] = xfer.r[k]
       /\ spiLog[6] = <<"cs", "HIGH">>
  /\ pc = "xfer_done" =>
       /\ xfer.ret[1] \div 256 = xfer.r[1]
       /\ xfer.ret[1] % 256 = xfer.r[2]
       /\ xfer.ret[2] \div 256 = xfer.r[3]
       /\ xfer.ret[2] % 256 = xfer.r[4]

\* the range write frame was exchanged for the reply 01 00 FF 01
C16_Witness ==
  /\ pc = "xfer_done"
  /\ cs = "HIGH"
  /\ xfer.b = <<208, 20, 0, 1>>
  /\ xfer.r = <<1, 0, 255, 1>>
  /\ xfer.ret = <<256, 65281>>

\* no step of the sketch or of the ADC changes vRange
RangeKept == vRange' = vRange

\* C17: vRange has its value before configure runs and no operation changes
\* it, so once configure has returned the selector adsxCodeToVolts reads has
\* the low four bits of the payload last written to the range-select
\* register.
C17_RangeAgrees ==
  /\ [][RangeKept]_vars
  /\ [](lastOp # "none" => rangeReg % 16 = vRange % 16)

\* unipolar 1.25x is in the ADC's register while a report is printed
C17_Witness ==
  /\ pc = "report"
  /\ vRange = ADSX_RANGE_UNIPOLAR_1P25X
  /\ rangeReg = 11
  /\ wrArgs = <<20, 11>>

\* C18: with an ADC that returns, at each exchange, the result of the
\* conversion the exchange before started, the value stored at position 0
\* of a burst comes from the conversion started by that burst's initial
\* frame and the value at position k from the one started by capture
\* exchange k-1 of the same burst; none comes from a conversion started
\* before the register write, in configure or in an earlier burst.
C18_SamplesFromThisBurst ==
  /\ Len(sources) = Len(writes)
  /\ \A k \in 1 .. Len(sources) :
       /\ sources[k] = IF k = 1 THEN <<"nop0", 0>> ELSE <<"cap", writes[k] - 1>>
       /\ sources[k][1] \notin {"reset", "wr", "nop1", "nop2", "earlier"}

\* a second or later burst has stored two samples
C18_Witness ==
  /\ lastOp = "report"
  /\ pc \in CapPcs
  /\ sources = <<<<"nop0", 0>>, <<"cap", 0>>>>
  /\ writes = <<0, 1>>

\* RVS was read HIGH before event k of the running operation and no
\* exchange lies between that read and event k
PacedAt(k) ==
  \E r \in At("rdy") :
     /\ r < k
     /\ \A m \in (r + 1) .. (k - 1) : ~IsExchange(trace[m])

\* event k is the first exchange after reset: the register write of setup()
FirstExchange(k) ==
  /\ trace[k] = "wr"
  /\ cfgRuns = 1
  /\ \A m \in 1 .. (k - 1) : ~IsExchange(trace[m])

\* C19 as stated: every exchange but the first after reset is issued after
\* RVS was read HIGH since the exchange before it.  (RVS is read in no
\* operation but configure and capture_fast, so a read that precedes an
\* exchange lies in the trace of the same operation.)
C19_EveryExchangePaced ==
  \A k \in DOMAIN trace :
     IsExchange(trace[k]) => (PacedAt(k) \/ FirstExchange(k))

\* C19: the exchanges issued after RVS was read HIGH since the exchange
\* before them are the second no-op of configure and the capture exchanges
\* of a burst, and no others: the first no-op of configure follows the
\* register write at once, and the initial no-op of a burst is issued with
\* no read of RVS since the last exchange of configure or of the burst
\* before.
C19_PacedExchanges ==
  \A k \in DOMAIN trace :
     IsExchange(trace[k]) =>
       (PacedAt(k) <=>
          \/ trace[k] = "cap"
          \/ trace[k] = "nop" /\ \E j \in 1 .. (k - 1) : trace[j] = "nop")

\* a later burst has issued its unpaced initial no-op and a paced capture
\* exchange
C19_Witness ==
  /\ lastOp = "report"
  /\ pc = "cap_end2"
  /\ SelectSeq(trace, LAMBDA e : IsExchange(e) \/ e = "rdy")
       = <<"nop", "rdy", "rdy", "cap">>

\* C20: when the ADC raises RVS after every exchange and holds it, configure
\* returns, every call of capture_fast returns, after exactly N capture
\* exchanges, and is followed by its decode and its report, and bursts are
\* started again and again.
C20_BurstsTerminate ==
  /\ <>(lastOp = "configure")
  /\ (pc = "cap_begin1") ~> (pc = "cap_ret")
  /\ [](pc = "cap_ret" => Cardinality(At("cap")) = N)
  /\ (pc = "cap_ret") ~> (lastOp = "decode")
  /\ (pc = "cap_ret") ~> (lastOp = "report")
  /\ []<>(pc = "cap_begin1")

\* a later burst of SAMPLE_COUNT samples returns after waits of at least
\* MaxPolls not-ready polls
C20_Witness ==
  /\ pc = "cap_ret"
  /\ lastOp = "report"
  /\ N = SAMPLE_COUNT
  /\ polls = MaxPolls
  /\ Len(replies) = SAMPLE_COUNT

====
